---- MODULE Spec2Model ----
(***************************************************************************)
(* Voice-session orchestration of the webhook endpoint.                    *)
(*                                                                         *)
(* The endpoint (route.ts, POST) runs on a single-threaded event loop:     *)
(* the code between two awaits runs without interruption and any other     *)
(* handler may run while a handler is suspended at an await.  Each webhook *)
(* delivery is a handler h[p]; h[p].pc names the await it is suspended at, *)
(* and one action is "resume from that await and run to the next one".     *)
(* Awaits with no access to shared state between them (reading the request *)
(* body, the optional OpenAI join, the 500 ms sleep, the tick of awaiting  *)
(* an already finished async function) are folded into one suspension.     *)
(*                                                                         *)
(* Shared state: the meetings table (status), the agents table, the        *)
(* process-wide session map of GeminiVoiceService and the session objects  *)
(* it points to.  A turn keeps a reference to the session object it read   *)
(* from the map, so the objects live in a heap (objs) and the map holds    *)
(* references.  The locals of a handler that has returned are gone.        *)
(***************************************************************************)
EXTENDS Naturals, Sequences, FiniteSets

\* ------------------------------------------------------------------ bounds
\* Number of webhook deliveries handled in one run.
MaxProcs == 2
\* Largest number of lines of a fetched transcript artifact.
MaxLines == 1
\* Largest number of lines of the transcript of a delivery handled alone.
BatchLines == 3

Procs == 1..MaxProcs

\* ------------------------------------------------------------- value sets
MeetingIds == {"m1", "m2"}
NoId == "noid"
Statuses == {"upcoming", "active", "processing", "completed", "cancelled"}
NoMeeting == "none"
AgentId == "agent1"
Instructions == "instr"
Speakers == {AgentId, "user"}
\* A user text is identified by the delivery that carries it and the line of
\* the transcript it stands on (0 for a live caption).
Text(p, i) == <<p, i>>
ReplyText == <<0, 1>>
FallbackReply == <<0, 0>>
AudioUrl == "url"

TurnPcs == {"pt_llm", "pt_tts", "pt_upload"}

VARIABLES
    status,        \* meetings table: status of each meeting, or NoMeeting
    agentExists,   \* agents table: the meetings' agent record exists
    sessions,      \* GeminiVoiceService.sessions: call id -> object reference (0: absent)
    objs,          \* heap of GeminiVoiceSession objects
    h,             \* the handler of each delivery: its position and locals
    resp,          \* the response sent by the last step ("none": it sent none)
    anyPayload,    \* a closed_caption payload handed to extractCaptionText
    captionText    \* what extractCaptionText returned for it

vars == <<status, agentExists, sessions, objs, h, resp, anyPayload, captionText>>

\* ------------------------------------------------------- payload values
\* A JSON value: a string, a number (not 0), an object (its fields in the
\* order of Object.entries), or the undefined that reading a missing field
\* gives.
Undef == [kind |-> "undef", str |-> "", fields |-> <<>>]
Str(s) == [kind |-> "str", str |-> s, fields |-> <<>>]
Num == [kind |-> "num", str |-> "", fields |-> <<>>]
Field(k, v) == [k |-> k, v |-> v]
\* An object literal; a field whose value is undefined is not there.
Obj(fs) ==
    [kind |-> "obj", str |-> "", fields |-> SelectSeq(fs, LAMBDA e : e.v.kind # "undef")]

\* extractCaptionText returned null / has not been called.
NoText == "null"
Unread == "unread"

\* o[k] of JavaScript: undefined for a missing key and for a string or a
\* number (which have no such property).
Get(o, k) ==
    IF o.kind = "obj" /\ \E i \in 1..Len(o.fields) : o.fields[i].k = k
    THEN o.fields[CHOOSE i \in 1..Len(o.fields) : o.fields[i].k = k].v
    ELSE Undef

\* Truthiness: an object, a number other than 0, a string other than "".
Truthy(v) == v.kind \in {"obj", "num"} \/ (v.kind = "str" /\ v.str # "")

\* a || b
Or(a, b) == IF Truthy(a) THEN a ELSE b

\* String.prototype.trim on the strings of the model.
Trim(s) == IF s = " " THEN "" ELSE s

\* typeof v === 'string' && v.trim().length > 0
NonBlankString(v) == v.kind = "str" /\ Trim(v.str) # ""

TextKeys == {"text", "caption", "content"}

RECURSIVE extractCaptionText(_)
RECURSIVE ScanEntries(_, _)

\* The fallback loop over Object.entries(o), from entry i on.
ScanEntries(fs, i) ==
    IF i > Len(fs) THEN NoText
    ELSE IF NonBlankString(fs[i].v) /\ fs[i].k \in TextKeys THEN fs[i].v.str
    ELSE IF fs[i].v.kind = "obj" /\ extractCaptionText(fs[i].v) # NoText
         THEN extractCaptionText(fs[i].v)
    ELSE ScanEntries(fs, i + 1)

extractCaptionText(obj) ==
    IF obj.kind # "obj" THEN NoText
    ELSE LET cc == Or(Get(obj, "closed_caption"), Get(obj, "caption"))
             direct == Or(Or(Get(cc, "text"), Get(cc, "caption")), Get(cc, "content"))
             payload == Or(Get(cc, "payload"), Get(cc, "data"))
             pText == Or(Or(Get(payload, "text"), Get(payload, "caption")),
                         Get(payload, "content"))
         IN  IF Truthy(cc) /\ NonBlankString(direct) THEN direct.str
             ELSE IF Truthy(cc) /\ Truthy(payload) /\ NonBlankString(pText) THEN pText.str
             ELSE ScanEntries(obj.fields, 1)

\* Locals of a handler: the event's type and meeting id (mid), the local
\* `session` and `geminiResponse` of processTranscription, the result of
\* ensureGeminiSessionForMeeting (ready), the transcript lines consumed
\* (lines), and how the processTranscription call that returned in the
\* handler's last step ended (lastRet; "none": no call returned in it).
Idle ==
    [pc |-> "idle", type |-> "none", mid |-> NoId,
     session |-> 0, geminiResponse |-> FallbackReply,
     ready |-> FALSE, lines |-> 0, lastRet |-> "none"]

Done == [Idle EXCEPT !.pc = "done"]

\* --------------------------------------------------------------- helpers
\* The handler returns NextResponse r.
Respond(p, r) ==
    /\ h' = [h EXCEPT ![p] = Done]
    /\ resp' = r
    /\ UNCHANGED <<anyPayload, captionText>>

\* The handler suspends with locals l.
Suspend(p, l) ==
    /\ h' = [h EXCEPT ![p] = l]
    /\ resp' = "none"
    /\ UNCHANGED <<anyPayload, captionText>>

\* Deliveries are numbered in the order in which their handlers start.
MayStart(p) ==
    /\ h[p].pc = "idle"
    /\ \A q \in Procs : q < p => h[q].pc # "idle"

Event(t, mid) == [Idle EXCEPT !.type = t, !.mid = mid]

\* ------------------------------------------------- GeminiVoiceService
NewSession(callId, agentUserId, instructions) ==
    [call |-> callId,
     agentUserId |-> agentUserId,
     instructions |-> instructions,
     conversationHistory |-> <<>>,
     isProcessing |-> FALSE,
     audioResponses |-> <<>>]

\* The service is a process-wide singleton that outlives the deliveries: a
\* run starts with the empty map of the constructor, or with the session
\* that earlier deliveries left for m1 (its agent exists).  Meeting m1 is in
\* the table, meeting m2 is not.
Init ==
    /\ status \in {f \in [MeetingIds -> Statuses \cup {NoMeeting}] :
                      f["m1"] # NoMeeting /\ f["m2"] = NoMeeting}
    /\ agentExists \in BOOLEAN
    /\ \E left \in BOOLEAN :
          IF left /\ agentExists
          THEN /\ objs = <<NewSession("m1", AgentId, Instructions)>>
               /\ sessions = [m \in MeetingIds |-> IF m = "m1" THEN 1 ELSE 0]
          ELSE /\ objs = <<>>
               /\ sessions = [m \in MeetingIds |-> 0]
    /\ h = [p \in Procs |-> Idle]
    /\ resp = "none"
    /\ anyPayload = Obj(<<>>)
    /\ captionText = Unread

hasSession(callId) == sessions[callId] # 0

\* sessions.set(call.id, {...}): a fresh object, whatever the map held.
startSession(callId, agentUserId, instructions) ==
    /\ objs' = Append(objs, NewSession(callId, agentUserId, instructions))
    /\ sessions' = [sessions EXCEPT ![callId] = Len(objs) + 1]

\* endSession that leaves the map as it is.
endSession_Keep(callId) ==
    UNCHANGED sessions

endSession(callId) ==
    sessions' = [sessions EXCEPT ![callId] = 0]

getAudioResponses(callId) ==
    IF sessions[callId] = 0 THEN <<>> ELSE objs[sessions[callId]].audioResponses

\* The guard without the test of isProcessing.
GuardResult_NoBusy(callId, speakerId) ==
    IF sessions[callId] = 0 THEN "absent"
    ELSE IF speakerId = objs[sessions[callId]].agentUserId THEN "self"
    ELSE "enter"

\* The guard without the comparison of the speaker with the agent.
GuardResult_NoSelf(callId, speakerId) ==
    IF sessions[callId] = 0 THEN "absent"
    ELSE IF objs[sessions[callId]].isProcessing THEN "busy"
    ELSE "enter"

\* The early returns of processTranscription, or the entry into the turn.
GuardResult(callId, speakerId) ==
    IF sessions[callId] = 0 THEN "absent"
    ELSE IF objs[sessions[callId]].isProcessing THEN "busy"
    ELSE IF speakerId = objs[sessions[callId]].agentUserId THEN "self"
    ELSE "enter"

\* Where the caller of processTranscription continues after it returned.
ReturnPc(l) ==
    IF l.type = "call.transcription_ready" THEN "tr_loop" ELSE "cc_ret"

\* processTranscription that keeps the text of a call made during a turn.
processTranscription_Enqueue(p, l, callId, transcriptionText, speakerId) ==
    LET r == GuardResult(callId, speakerId)
        s == sessions[callId]
        entry == [role |-> "user", content |-> transcriptionText]
    IN  IF r = "enter"
        THEN /\ objs' = [objs EXCEPT
                   ![s].isProcessing = TRUE,
                   ![s].conversationHistory = Append(@, entry)]
             /\ Suspend(p, [l EXCEPT !.pc = "pt_llm", !.session = s, !.lastRet = "none"])
        ELSE /\ Suspend(p, [l EXCEPT !.pc = ReturnPc(l), !.lastRet = r])
             /\ objs' = IF r = "busy"
                        THEN [objs EXCEPT ![s].conversationHistory = Append(@, entry)]
                        ELSE objs

\* processTranscription that enters the turn without setting isProcessing.
processTranscription_NoSet(p, l, callId, transcriptionText, speakerId) ==
    LET r == GuardResult(callId, speakerId)
        s == sessions[callId]
    IN  IF r = "enter"
        THEN /\ objs' = [objs EXCEPT
                   ![s].conversationHistory =
                       Append(@, [role |-> "user", content |-> transcriptionText])]
             /\ Suspend(p, [l EXCEPT !.pc = "pt_llm", !.session = s, !.lastRet = "none"])
        ELSE /\ Suspend(p, [l EXCEPT !.pc = ReturnPc(l), !.lastRet = r])
             /\ UNCHANGED objs

\* processTranscription up to its first await (generateGeminiResponse);
\* l holds the caller's locals.
processTranscription(p, l, callId, transcriptionText, speakerId) ==
    LET r == GuardResult(callId, speakerId)
        s == sessions[callId]
    IN  IF r = "enter"
        THEN /\ objs' = [objs EXCEPT
                   ![s].isProcessing = TRUE,
                   ![s].conversationHistory =
                       Append(@, [role |-> "user", content |-> transcriptionText])]
             /\ Suspend(p, [l EXCEPT !.pc = "pt_llm", !.session = s, !.lastRet = "none"])
        ELSE /\ Suspend(p, [l EXCEPT !.pc = ReturnPc(l), !.lastRet = r])
             /\ UNCHANGED objs

\* A finally block that looks the session up in the map again: the flag of
\* an object that is no longer in the map is not released.
Finally_ByLookup(p, heap) ==
    /\ objs' = IF sessions[h[p].mid] = h[p].session
               THEN [heap EXCEPT ![h[p].session].isProcessing = FALSE]
               ELSE heap
    /\ Suspend(p, [h[p] EXCEPT !.pc = ReturnPc(h[p]), !.session = 0,
                               !.geminiResponse = FallbackReply, !.lastRet = "ran"])

\* A return that skips the finally block.
Finally_NoRelease(p, heap) ==
    /\ objs' = heap
    /\ Suspend(p, [h[p] EXCEPT !.pc = ReturnPc(h[p]), !.session = 0,
                               !.geminiResponse = FallbackReply, !.lastRet = "ran"])

\* The finally block: release the flag of the object the turn holds, return.
Finally(p, heap) ==
    /\ objs' = [heap EXCEPT ![h[p].session].isProcessing = FALSE]
    /\ Suspend(p, [h[p] EXCEPT !.pc = ReturnPc(h[p]), !.session = 0,
                               !.geminiResponse = FallbackReply, !.lastRet = "ran"])

PushAudio(heap, s, text, url) ==
    [heap EXCEPT ![s].audioResponses = Append(@, [text |-> text, audioUrl |-> url])]

\* Resume from generateGeminiResponse: the reply, the fallback for an empty
\* reply, or an exception.
PtLlm(p, out) ==
    /\ h[p].pc = "pt_llm"
    /\ IF out = "fail"
       THEN Finally(p, objs)
       ELSE LET reply == IF out = "empty" THEN FallbackReply ELSE ReplyText
            IN  /\ objs' = [objs EXCEPT ![h[p].session].conversationHistory =
                               Append(@, [role |-> "assistant", content |-> reply])]
                /\ Suspend(p, [h[p] EXCEPT !.pc = "pt_tts", !.geminiResponse = reply])
    /\ UNCHANGED <<status, agentExists, sessions>>

\* Resume from textToSpeech: null when getTTSClient() finds no credentials,
\* else a buffer or an exception.
PtTts(p, out) ==
    /\ h[p].pc = "pt_tts"
    /\ CASE out = "null" ->
              Finally(p, PushAudio(objs, h[p].session, h[p].geminiResponse, ""))
         [] out = "fail" ->
              Finally(p, objs)
         [] out = "buffer" ->
              /\ Suspend(p, [h[p] EXCEPT !.pc = "pt_upload"])
              /\ UNCHANGED objs
    /\ UNCHANGED <<status, agentExists, sessions>>

\* A turn that stores its session under the call id again when it ends.
PtUpload_Reinsert(p, ok) ==
    /\ h[p].pc = "pt_upload"
    /\ IF ok
       THEN Finally(p, PushAudio(objs, h[p].session, h[p].geminiResponse, AudioUrl))
       ELSE Finally(p, objs)
    /\ sessions' = [sessions EXCEPT ![h[p].mid] = h[p].session]
    /\ UNCHANGED <<status, agentExists>>

\* Resume from uploadToCloudinary.
PtUpload(p, ok) ==
    /\ h[p].pc = "pt_upload"
    /\ IF ok
       THEN Finally(p, PushAudio(objs, h[p].session, h[p].geminiResponse, AudioUrl))
       ELSE Finally(p, objs)
    /\ UNCHANGED <<status, agentExists, sessions>>

\* ------------------------------------------------------ meetings table
\* select ... where id = meetingId and status not in (active, completed,
\* cancelled, processing): a row is returned.
selectEligible(meetingId) ==
    /\ status[meetingId] # NoMeeting
    /\ status[meetingId] \notin {"active", "completed", "cancelled", "processing"}

\* update meetings set status = 'active' where id = existingMeeting.id
updateActive(meetingId) ==
    status' = [status EXCEPT ![meetingId] = "active"]

\* The update without the condition on the status.
updateProcessing_Always(meetingId) ==
    status' = [status EXCEPT ![meetingId] = "processing"]

\* update meetings set status = 'processing' where id = meetingId and status = 'active'
updateProcessing(meetingId) ==
    status' = [status EXCEPT ![meetingId] = IF @ = "active" THEN "processing" ELSE @]

\* ------------------------------------- ensureGeminiSessionForMeeting
\* ensure without the hasSession test.
ensureBegin_NoCheck(p, l) ==
    Suspend(p, [l EXCEPT !.pc = "en_lookup"])

\* Up to the first await: the session exists, or the meeting is looked up.
ensureBegin(p, l) ==
    IF hasSession(l.mid)
    THEN /\ Suspend(p, [l EXCEPT !.pc = "en_ret", !.ready = TRUE])
    ELSE /\ Suspend(p, [l EXCEPT !.pc = "en_lookup"])

\* An ensure that gives up when upsertUsers fails.
EnsureCreate_Strict(p, upsertOk) ==
    /\ h[p].pc = "en_lookup"
    /\ IF status[h[p].mid] = NoMeeting \/ ~agentExists \/ ~upsertOk
       THEN /\ Suspend(p, [h[p] EXCEPT !.pc = "en_ret", !.ready = FALSE])
            /\ UNCHANGED <<sessions, objs>>
       ELSE /\ startSession(h[p].mid, AgentId, Instructions)
            /\ Suspend(p, [h[p] EXCEPT !.pc = "en_ret", !.ready = TRUE])
    /\ UNCHANGED <<status, agentExists>>

\* The rest of ensure: the meeting and agent lookups (the records do not
\* change), upsertUsers, whose failure is caught, and startSession.
EnsureCreate(p, upsertOk) ==
    /\ h[p].pc = "en_lookup"
    /\ IF status[h[p].mid] = NoMeeting
       THEN /\ upsertOk
            /\ Suspend(p, [h[p] EXCEPT !.pc = "en_ret", !.ready = FALSE])
            /\ UNCHANGED <<sessions, objs>>
       ELSE IF ~agentExists
       THEN /\ upsertOk
            /\ Suspend(p, [h[p] EXCEPT !.pc = "en_ret", !.ready = FALSE])
            /\ UNCHANGED <<sessions, objs>>
       ELSE /\ startSession(h[p].mid, AgentId, Instructions)
            /\ Suspend(p, [h[p] EXCEPT !.pc = "en_ret", !.ready = TRUE])
    /\ UNCHANGED <<status, agentExists>>

\* ------------------------------------------------------------- POST
\* Missing headers (400), invalid signature (401), invalid JSON (400).
RejectRequest(p, r) ==
    /\ MayStart(p)
    /\ Respond(p, r)
    /\ UNCHANGED <<status, agentExists, sessions, objs>>

SessionStarted(p, mid) ==
    /\ MayStart(p)
    /\ IF mid = NoId
       THEN Respond(p, "400")
       ELSE /\ Suspend(p, [Event("call.session_started", mid) EXCEPT !.pc = "ss_select"])
    /\ UNCHANGED <<status, agentExists, sessions, objs>>

SsSelect(p) ==
    /\ h[p].pc = "ss_select"
    /\ IF selectEligible(h[p].mid)
       THEN Suspend(p, [h[p] EXCEPT !.pc = "ss_update"])
       ELSE Respond(p, "404")
    /\ UNCHANGED <<status, agentExists, sessions, objs>>

SsUpdate(p) ==
    /\ h[p].pc = "ss_update"
    /\ updateActive(h[p].mid)
    /\ Suspend(p, [h[p] EXCEPT !.pc = "ss_agent"])
    /\ UNCHANGED <<agentExists, sessions, objs>>

\* A branch in which the second failure of doUpsert() fails the request.
SsStart_Fatal(p, upsert) ==
    /\ h[p].pc = "ss_agent"
    /\ IF ~agentExists
       THEN /\ upsert = "ok"
            /\ Respond(p, "404")
            /\ UNCHANGED <<sessions, objs>>
       ELSE IF upsert = "ok"
       THEN /\ startSession(h[p].mid, AgentId, Instructions)
            /\ Respond(p, "ok")
       ELSE /\ Respond(p, "500")
            /\ UNCHANGED <<sessions, objs>>
    /\ UNCHANGED <<status, agentExists>>

\* The rest of the branch: the agent lookup (404 without a record), then
\* doUpsert() and, when it fails, a second doUpsert() after 500 ms.  upsert
\* is "ok" when one of the two succeeds: the session is started (after the
\* optional OpenAI join, whose failure is caught).  It is "failed" when both
\* fail: the second exception reaches the outer catch, which logs it and
\* falls through to the final response.
SsStart(p, upsert) ==
    /\ h[p].pc = "ss_agent"
    /\ IF ~agentExists
       THEN /\ upsert = "ok"
            /\ Respond(p, "404")
            /\ UNCHANGED <<sessions, objs>>
       ELSE IF upsert = "ok"
       THEN /\ startSession(h[p].mid, AgentId, Instructions)
            /\ Respond(p, "ok")
       ELSE /\ Respond(p, "ok")
            /\ UNCHANGED <<sessions, objs>>
    /\ UNCHANGED <<status, agentExists>>

ParticipantLeft(p, mid) ==
    /\ MayStart(p)
    /\ Respond(p, IF mid = NoId THEN "400" ELSE "ok")
    /\ UNCHANGED <<status, agentExists, sessions, objs>>

\* endSession runs before the handler first suspends on shared state.
SessionEnded(p, mid) ==
    /\ MayStart(p)
    /\ IF mid = NoId
       THEN Respond(p, "400") /\ UNCHANGED sessions
       ELSE /\ endSession(mid)
            /\ Suspend(p, [Event("call.session_ended", mid) EXCEPT !.pc = "se_update"])
    /\ UNCHANGED <<status, agentExists, objs>>

SeUpdate(p) ==
    /\ h[p].pc = "se_update"
    /\ updateProcessing(h[p].mid)
    /\ Respond(p, "ok")
    /\ UNCHANGED <<agentExists, sessions, objs>>

\* inngest.send and the final response; an exception of inngest.send is not
\* caught by the handler.
SendAndRespond(p, sendOk) ==
    /\ Respond(p, IF sendOk THEN "ok" ELSE "500")

TranscriptionReady(p, mid) ==
    /\ MayStart(p)
    /\ Suspend(p, [Event("call.transcription_ready", mid) EXCEPT !.pc = "tr_update"])
    /\ UNCHANGED <<status, agentExists, sessions, objs>>

\* Resume from the transcriptUrl update; hasSession decides on the fetch.
TrUpdate(p, sendOk) ==
    /\ h[p].pc = "tr_update"
    /\ IF status[h[p].mid] = NoMeeting
       THEN sendOk /\ Respond(p, "404")
       ELSE IF hasSession(h[p].mid)
            THEN /\ sendOk
                 /\ Suspend(p, [h[p] EXCEPT !.pc = "tr_fetch"])
            ELSE SendAndRespond(p, sendOk)
    /\ UNCHANGED <<status, agentExists, sessions, objs>>

\* The for-loop from the current line to its next await: `bad` malformed
\* lines are skipped, then either the file ends (kind "eof") or a well-formed
\* line is handed to processTranscription (kind "ok").
\* A loop that hands a line on without moving past it.
NextLinesUpTo_Again(n, p, bad, kind, speaker, sendOk) ==
    /\ h[p].lines + bad + (IF kind = "ok" THEN 1 ELSE 0) <= n
    /\ IF kind = "eof"
       THEN /\ speaker = "user"
            /\ SendAndRespond(p, sendOk)
            /\ UNCHANGED objs
       ELSE /\ sendOk
            /\ processTranscription(p, [h[p] EXCEPT !.lines = @ + bad], h[p].mid,
                                    Text(p, h[p].lines + bad + 1), speaker)

\* The transcript has at most n lines.
NextLinesUpTo(n, p, bad, kind, speaker, sendOk) ==
    /\ h[p].lines + bad + (IF kind = "ok" THEN 1 ELSE 0) <= n
    /\ IF kind = "eof"
       THEN /\ speaker = "user"
            /\ SendAndRespond(p, sendOk)
            /\ UNCHANGED objs
       ELSE /\ sendOk
            /\ processTranscription(p, [h[p] EXCEPT !.lines = @ + bad + 1], h[p].mid,
                                    Text(p, h[p].lines + bad + 1), speaker)

NextLines(p, bad, kind, speaker, sendOk) ==
    NextLinesUpTo(MaxLines, p, bad, kind, speaker, sendOk)

\* Resume from fetch/text(): an exception skips the lines.
TrFetchUpTo(n, p, fetchOk, bad, kind, speaker, sendOk) ==
    /\ h[p].pc = "tr_fetch"
    /\ IF fetchOk
       THEN NextLinesUpTo(n, p, bad, kind, speaker, sendOk)
       ELSE /\ bad = 0 /\ kind = "eof" /\ speaker = "user"
            /\ SendAndRespond(p, sendOk)
            /\ UNCHANGED objs
    /\ UNCHANGED <<status, agentExists, sessions>>

TrFetch(p, fetchOk, bad, kind, speaker, sendOk) ==
    TrFetchUpTo(MaxLines, p, fetchOk, bad, kind, speaker, sendOk)

\* Resume from processTranscription inside the loop.
TrLoopUpTo(n, p, bad, kind, speaker, sendOk) ==
    /\ h[p].pc = "tr_loop"
    /\ NextLinesUpTo(n, p, bad, kind, speaker, sendOk)
    /\ UNCHANGED <<status, agentExists, sessions>>

TrLoop(p, bad, kind, speaker, sendOk) ==
    TrLoopUpTo(MaxLines, p, bad, kind, speaker, sendOk)

RecordingReady(p) ==
    /\ MayStart(p)
    /\ Respond(p, "ok")
    /\ UNCHANGED <<status, agentExists, sessions, objs>>

ClosedCaption(p, mid) ==
    /\ MayStart(p)
    /\ IF mid = NoId
       THEN Respond(p, "ignored")
       ELSE ensureBegin(p, Event("call.closed_caption", mid))
    /\ UNCHANGED <<status, agentExists, sessions, objs>>

\* closed_caption that goes on without testing the result of ensure.
CcContinue_NoReadyTest(p, hasText, speakerId) ==
    /\ h[p].pc = "en_ret"
    /\ h[p].type = "call.closed_caption"
    /\ IF ~hasText
       THEN Respond(p, "ignored") /\ UNCHANGED objs
       ELSE processTranscription(p, h[p], h[p].mid, Text(p, 0), speakerId)
    /\ UNCHANGED <<status, agentExists, sessions>>

\* closed_caption after ensure returned.  The payload is first read here:
\* hasText says whether extractCaptionText finds a text in it, speakerId is
\* the speaker it names.
CcContinue(p, hasText, speakerId) ==
    /\ h[p].pc = "en_ret"
    /\ h[p].type = "call.closed_caption"
    /\ IF ~h[p].ready \/ ~hasText
       THEN Respond(p, "ignored") /\ UNCHANGED objs
       ELSE processTranscription(p, h[p], h[p].mid, Text(p, 0), speakerId)
    /\ UNCHANGED <<status, agentExists, sessions>>

\* closed_caption after processTranscription returned.
CcReturn(p) ==
    /\ h[p].pc = "cc_ret"
    /\ Respond(p, "ok")
    /\ UNCHANGED <<status, agentExists, sessions, objs>>

\* call.closed_captions_started and call.transcription_started.
StartEvent(p, mid) ==
    /\ MayStart(p)
    /\ IF mid = NoId
       THEN Respond(p, "ignored")
       ELSE ensureBegin(p, Event("call.closed_captions_started", mid))
    /\ UNCHANGED <<status, agentExists, sessions, objs>>

StartContinue(p) ==
    /\ h[p].pc = "en_ret"
    /\ h[p].type = "call.closed_captions_started"
    /\ Respond(p, "ok")
    /\ UNCHANGED <<status, agentExists, sessions, objs>>

OtherEvent(p) ==
    /\ MayStart(p)
    /\ Respond(p, "ok")
    /\ UNCHANGED <<status, agentExists, sessions, objs>>

Next ==
    \E p \in Procs :
        \/ \E r \in {"400", "401"} : RejectRequest(p, r)
        \/ \E mid \in MeetingIds \cup {NoId} : SessionStarted(p, mid)
        \/ SsSelect(p)
        \/ SsUpdate(p)
        \/ \E upsert \in {"ok", "failed"} : SsStart(p, upsert)
        \/ \E mid \in MeetingIds \cup {NoId} : ParticipantLeft(p, mid)
        \/ \E mid \in MeetingIds \cup {NoId} : SessionEnded(p, mid)
        \/ SeUpdate(p)
        \/ \E mid \in MeetingIds : TranscriptionReady(p, mid)
        \/ \E sendOk \in BOOLEAN : TrUpdate(p, sendOk)
        \/ \E fetchOk, sendOk \in BOOLEAN, bad \in 0..MaxLines, kind \in {"eof", "ok"},
              speaker \in Speakers : TrFetch(p, fetchOk, bad, kind, speaker, sendOk)
        \/ \E sendOk \in BOOLEAN, bad \in 0..MaxLines, kind \in {"eof", "ok"},
              speaker \in Speakers : TrLoop(p, bad, kind, speaker, sendOk)
        \/ RecordingReady(p)
        \/ \E mid \in MeetingIds \cup {NoId} : ClosedCaption(p, mid)
        \/ \E hasText \in BOOLEAN, speakerId \in Speakers : CcContinue(p, hasText, speakerId)
        \/ CcReturn(p)
        \/ \E mid \in MeetingIds \cup {NoId} : StartEvent(p, mid)
        \/ StartContinue(p)
        \/ \E upsertOk \in BOOLEAN : EnsureCreate(p, upsertOk)
        \/ \E out \in {"text", "empty", "fail"} : PtLlm(p, out)
        \/ \E out \in {"null", "buffer", "fail"} : PtTts(p, out)
        \/ \E ok \in BOOLEAN : PtUpload(p, ok)
        \/ OtherEvent(p)

Spec == Init /\ [][Next]_vars

\* ------------------------------------------------------------- fairness
\* The external call a turn awaits returns or fails, and the event loop
\* then resumes the turn.
TurnStep(p) ==
    \/ \E out \in {"text", "empty", "fail"} : PtLlm(p, out)
    \/ \E out \in {"null", "buffer", "fail"} : PtTts(p, out)
    \/ \E ok \in BOOLEAN : PtUpload(p, ok)

SpecLive == Spec /\ \A p \in Procs : WF_vars(TurnStep(p))

\* ------------------------------------------- one delivery handled alone
\* A call.transcription_ready delivery for m1, handled with no other delivery
\* in flight, on the session that earlier deliveries left for m1; its
\* transcript has up to BatchLines lines.
InitBatch ==
    /\ status \in {f \in [MeetingIds -> Statuses \cup {NoMeeting}] :
                      f["m1"] # NoMeeting /\ f["m2"] = NoMeeting}
    /\ agentExists = TRUE
    /\ objs = <<NewSession("m1", AgentId, Instructions)>>
    /\ sessions = [m \in MeetingIds |-> IF m = "m1" THEN 1 ELSE 0]
    /\ h = [p \in Procs |-> Idle]
    /\ resp = "none"
    /\ anyPayload = Obj(<<>>)
    /\ captionText = Unread

TrFetchBatch(p, fetchOk, bad, kind, speaker, sendOk) ==
    TrFetchUpTo(BatchLines, p, fetchOk, bad, kind, speaker, sendOk)

TrLoopBatch(p, bad, kind, speaker, sendOk) ==
    TrLoopUpTo(BatchLines, p, bad, kind, speaker, sendOk)

NextBatch ==
    \E p \in {1} :
        \/ TranscriptionReady(p, "m1")
        \/ \E sendOk \in BOOLEAN : TrUpdate(p, sendOk)
        \/ \E fetchOk, sendOk \in BOOLEAN, bad \in 0..BatchLines, kind \in {"eof", "ok"},
              speaker \in Speakers : TrFetchBatch(p, fetchOk, bad, kind, speaker, sendOk)
        \/ \E sendOk \in BOOLEAN, bad \in 0..BatchLines, kind \in {"eof", "ok"},
              speaker \in Speakers : TrLoopBatch(p, bad, kind, speaker, sendOk)
        \/ \E out \in {"text", "empty", "fail"} : PtLlm(p, out)
        \/ \E out \in {"null", "buffer", "fail"} : PtTts(p, out)
        \/ \E ok \in BOOLEAN : PtUpload(p, ok)

SpecBatch == InitBatch /\ [][NextBatch]_vars

\* ------------------------------------------------- extractCaptionText
\* Payloads of closed_caption events.  A string that is neither empty nor
\* blank is named after the place it stands at.
NestedPayloads ==
    {Obj(<<Field("text", t), Field("content", c)>>) :
        t \in {Undef, Str(" "), Str("cc.payload.text")},
        c \in {Undef, Str("cc.payload.content")}}

Captions ==
    {Obj(<<Field("text", t), Field("caption", c), Field("content", n),
           Field("payload", q), Field("data", d)>>) :
        t \in {Undef, Str(""), Str(" "), Num, Str("cc.text")},
        c \in {Undef, Str("cc.caption")},
        n \in {Undef, Str("cc.content")},
        q \in {Undef} \cup NestedPayloads,
        d \in {Undef, Obj(<<Field("text", Str("cc.data.text"))>>)}}

Payloads ==
    {Obj(IF textFirst
         THEN <<Field("text", t), Field("call", call), Field("closed_caption", cc),
                Field("caption", cap)>>
         ELSE <<Field("call", call), Field("closed_caption", cc),
                Field("caption", cap), Field("text", t)>>) :
        textFirst \in BOOLEAN,
        t \in {Undef, Str(" "), Str("text")},
        call \in {Undef, Obj(<<Field("cid", Str("default:m1"))>>),
                  Obj(<<Field("cid", Str("default:m1")),
                        Field("session", Obj(<<Field("content", Str("call.session.content"))>>))>>)},
        cc \in {Undef} \cup Captions,
        cap \in {Undef, Str("caption"), Obj(<<Field("text", Str("caption.text"))>>)}}

InitCaption ==
    /\ status = [m \in MeetingIds |-> IF m = "m1" THEN "active" ELSE NoMeeting]
    /\ agentExists = TRUE
    /\ objs = <<NewSession("m1", AgentId, Instructions)>>
    /\ sessions = [m \in MeetingIds |-> IF m = "m1" THEN 1 ELSE 0]
    /\ h = [p \in Procs |-> Idle]
    /\ resp = "none"
    /\ anyPayload \in Payloads
    /\ captionText = Unread

\* const text = extractCaptionText(anyPayload)
ExtractText ==
    /\ captionText = Unread
    /\ captionText' = extractCaptionText(anyPayload)
    /\ UNCHANGED <<status, agentExists, sessions, objs, h, resp, anyPayload>>

NextCaption == ExtractText

SpecCaption == InitCaption /\ [][NextCaption]_vars

\* ----------------------------------------------------------- definitions
\* Delivery p is executing a turn (between the guard of processTranscription
\* and its finally block).
InTurn(p) == h[p].pc \in TurnPcs

\* Delivery p takes the step.
Steps(p) == h'[p] # h[p]

\* The session object a processTranscription call of p that returns in the
\* step was made on (0: none).
RetSession(p) ==
    IF InTurn(p) THEN h[p].session ELSE sessions[h[p].mid]

\* A processTranscription call of p returns in the step.
Returns(p) == Steps(p) /\ h'[p].lastRet # "none"

\* Some delivery is the only one handled so far and is still being handled.
OnlyHandler(p) == \A q \in Procs \ {p} : h[q].pc = "idle"

\* ------------------------------------------------------------------ C1
\* C1: at most one turn for a call identifier is executing at any instant.
C1_OneTurnPerCall ==
    \A p, q \in Procs :
        (InTurn(p) /\ InTurn(q) /\ h[p].mid = h[q].mid) => p = q

\* ------------------------------------------------------------------ C2
\* C2 as claimed: inFlight is false immediately after every processTurn call
\* on a session returns.
C2_ReleasedAfterEveryCall ==
    [][\A p \in Procs :
          (Returns(p) /\ RetSession(p) # 0) => ~objs'[RetSession(p)].isProcessing]_vars

NoOrphanFlag ==
    \A s \in 1..Len(objs) :
        objs[s].isProcessing => \E p \in Procs : InTurn(p) /\ h[p].session = s

ReturnReleases ==
    \A p \in Procs :
        (Returns(p) /\ h'[p].lastRet # "busy" /\ RetSession(p) # 0)
            => ~objs'[RetSession(p)].isProcessing

\* C2 amended: inFlight is false immediately after every processTurn call
\* that was not dropped by the inFlight guard returns, whatever step failed,
\* and no session has inFlight true while no turn is executing on it.
C2_ReleasedAfterTurn ==
    [](NoOrphanFlag) /\ [][ReturnReleases]_vars

\* A turn whose language-model call failed has returned: the history ends
\* with the user entry and the flag is released.
C2_Witness ==
    /\ \E p \in Procs : h[p].lastRet = "ran"
    /\ \E s \in 1..Len(objs) :
          /\ ~objs[s].isProcessing
          /\ Len(objs[s].conversationHistory) = 1
          /\ objs[s].audioResponses = <<>>

\* ------------------------------------------------------------------ C3
ExclusivePerSession ==
    \A p, q \in Procs :
        (InTurn(p) /\ InTurn(q) /\ h[p].session = h[q].session) => p = q

\* A call passes the guard only on a session that is not in flight, and sets
\* the flag in the same step.
EntersFree ==
    \A p \in Procs :
        (Steps(p) /\ ~InTurn(p) /\ h'[p].pc \in TurnPcs)
            => /\ ~objs[h'[p].session].isProcessing
               /\ objs'[h'[p].session].isProcessing

\* A call made while the session is in flight changes nothing and calls nothing.
LoserIsNoOp ==
    \A p \in Procs :
        (Returns(p) /\ h'[p].lastRet = "busy")
            => (objs' = objs /\ sessions' = sessions /\ ~(h'[p].pc \in TurnPcs))

\* C3: of two overlapping processTurn calls on the same session exactly one
\* passes the guard, check and set are one step, the other is a no-op.
C3_SingleFlight ==
    [](ExclusivePerSession) /\ [][EntersFree /\ LoserIsNoOp]_vars

C3_Witness ==
    \E p, q \in Procs :
        /\ h[q].lastRet = "busy"
        /\ InTurn(p)
        /\ h[p].mid = h[q].mid
        /\ sessions[h[p].mid] = h[p].session

\* ------------------------------------------------------------------ C4
\* Delivery p calls processTranscription with the agent as the speaker.
AgentCall(p) ==
    \/ CcContinue(p, TRUE, AgentId)
    \/ \E bad \in 0..MaxLines :
          \/ TrFetch(p, TRUE, bad, "ok", AgentId, TRUE)
          \/ TrLoop(p, bad, "ok", AgentId, TRUE)

\* C4: a processTurn call whose speaker is the session's agent leaves the
\* session unchanged and calls no external service.
C4_AgentTurnIsNoOp ==
    [][\A p \in Procs :
          AgentCall(p) =>
              /\ objs' = objs
              /\ sessions' = sessions
              /\ ~(h'[p].pc \in TurnPcs)]_vars

C4_Witness ==
    /\ \E p \in Procs : h[p].lastRet = "self"
    /\ \E m \in MeetingIds : hasSession(m) /\ ~objs[sessions[m]].isProcessing

\* ------------------------------------------------------------------ C5
Finished == {"active", "completed", "cancelled", "processing"}

\* C5: the status is never set to active from active, completed, cancelled
\* or processing, and a session_started event for a meeting in one of those
\* statuses starts no session.
C5_ActiveOnlyFromEligible ==
    [][\A p \in Procs :
          /\ SsUpdate(p) => status[h[p].mid] \notin Finished
          /\ (SsSelect(p) /\ status[h[p].mid] \in Finished)
                => (h'[p].pc = "done" /\ sessions' = sessions /\ status' = status)]_vars

\* ------------------------------------------------------------------ C6
\* C6: a session is created for a call identifier only when the store holds
\* none for it; an existing session is never replaced.
C6_CreateOnlyWhenAbsent ==
    [][\A m \in MeetingIds :
          (sessions'[m] # sessions[m] /\ sessions'[m] # 0) => sessions[m] = 0]_vars

\* ------------------------------------------------------------------ C7
\* C7: session_ended removes the session before the status update is
\* attempted, whatever the status, and the update does not bring it back.
C7_EndBeforeStatus ==
    [][\A p \in Procs :
          /\ \A m \in MeetingIds :
                SessionEnded(p, m) =>
                    /\ sessions'[m] = 0
                    /\ status' = status
                    /\ h'[p].pc = "se_update"
          /\ SeUpdate(p) => (h[p].type = "call.session_ended" /\ sessions' = sessions)]_vars

\* A session_ended handler has removed a session that existed and waits for
\* the update of a meeting that is not active.
C7_Witness ==
    \E p \in Procs :
        /\ h[p].pc = "se_update"
        /\ status[h[p].mid] # "active"
        /\ sessions[h[p].mid] = 0
        /\ \E s \in 1..Len(objs) : objs[s].call = h[p].mid

\* ------------------------------------------------------------------ C8
\* C8: the status becomes processing only from active and only by the update
\* of session_ended, which changes nothing when the status is not active.
C8_ProcessingOnlyFromActive ==
    [][/\ \A m \in MeetingIds :
             (status'[m] = "processing" /\ status[m] # "processing")
                 => /\ status[m] = "active"
                    /\ \E p \in Procs : SeUpdate(p) /\ h[p].mid = m
       /\ \A p \in Procs :
             SeUpdate(p) =>
                 status' = [status EXCEPT ![h[p].mid] =
                               IF status[h[p].mid] = "active" THEN "processing"
                               ELSE status[h[p].mid]]]_vars

\* A session_started handler has set the status to active and has not gone
\* on yet; the update of a session_ended event has since made it processing.
C8_Witness ==
    \E q \in Procs :
        /\ h[q].pc = "ss_agent"
        /\ status[h[q].mid] = "processing"
        /\ resp = "ok"

\* ------------------------------------------------------------------ C9
\* C9: ensure with an existing session returns true at once: no lookup, no
\* provisioning, the session unchanged.
C9_EnsureHit ==
    [][\A p \in Procs, m \in MeetingIds :
          ((ClosedCaption(p, m) \/ StartEvent(p, m)) /\ hasSession(m))
              => /\ h'[p].pc = "en_ret"
                 /\ h'[p].ready
                 /\ objs' = objs
                 /\ sessions' = sessions]_vars

\* Two ensure calls in a row found the session that was there before them:
\* both returned true and the session is as it was.
C9_Witness ==
    /\ \A p \in Procs : h[p].pc = "en_ret" /\ h[p].ready /\ h[p].mid = "m1"
    /\ objs = <<NewSession("m1", AgentId, Instructions)>>
    /\ sessions["m1"] = 1

\* ------------------------------------------------------------------ C10
\* C10: a session_started event for an upcoming meeting whose agent resolves
\* ends with the status active, a session for the meeting and the success
\* acknowledgment, also when provisioning fails twice.
C10_StartedMeansSession ==
    [][\A p \in Procs :
          (OnlyHandler(p) /\ h[p].pc = "ss_agent" /\ agentExists /\ Steps(p))
              => /\ resp' = "ok"
                 /\ status'[h[p].mid] = "active"
                 /\ sessions'[h[p].mid] # 0]_vars

\* ------------------------------------------------------------------ C11
\* The user entries of a history, in order.
Users(hist) == SelectSeq(hist, LAMBDA e : e.role = "user")

\* The transcript line a user entry was read from.
LineOf(e) == e.content[2]

\* The user entries of the session are lines of the transcript in file
\* order, none twice, none beyond the line the loop stands on; while a turn
\* executes it is the turn of that line.
BatchInOrder ==
    LET u == Users(objs[1].conversationHistory)
    IN  h[1].pc # "done" =>
            /\ \A i \in 1..Len(u) : u[i].content[1] = 1 /\ LineOf(u[i]) <= h[1].lines
            /\ \A i, j \in 1..Len(u) : i < j => LineOf(u[i]) < LineOf(u[j])
            /\ InTurn(1) => (Len(u) > 0 /\ LineOf(u[Len(u)]) = h[1].lines)

\* A step of the loop either ends the batch and appends nothing, or moves
\* past at least one line and hands the line it stops on to
\* processTranscription: a turn starts for it, or the line is the agent's and
\* nothing is appended.  No user entry is appended by any other step.
EachLineOneTurn ==
    LET hist == objs[1].conversationHistory
        hist2 == objs'[1].conversationHistory
    IN  /\ (Steps(1) /\ h[1].pc \in {"tr_fetch", "tr_loop"}) =>
              \/ h'[1].pc = "done" /\ hist2 = hist
              \/ /\ h'[1].lines > h[1].lines
                 /\ \/ /\ h'[1].pc = "pt_llm"
                       /\ hist2 = Append(hist, [role |-> "user",
                                                content |-> Text(1, h'[1].lines)])
                    \/ /\ h'[1].pc = "tr_loop"
                       /\ h'[1].lastRet = "self"
                       /\ hist2 = hist
        /\ Users(hist2) # Users(hist) => h[1].pc \in {"tr_fetch", "tr_loop"}

\* C11: with a session, transcription_ready hands every well-formed line to
\* processTurn exactly once, in file order, each after the previous turn
\* returned; malformed lines are skipped and the later lines still processed.
C11_BatchInOrder ==
    [](BatchInOrder) /\ [][EachLineOneTurn]_vars

\* Three lines were read, the second was skipped, and exactly two turns ran:
\* for line 1 and then for line 3.
C11_Witness ==
    /\ h[1].pc = "tr_loop"
    /\ h[1].lines = 3
    /\ h[1].lastRet = "ran"
    /\ LET u == Users(objs[1].conversationHistory)
       IN  Len(u) = 2 /\ LineOf(u[1]) = 1 /\ LineOf(u[2]) = 3

\* ------------------------------------------------------------------ C12
\* The assistant entries of a history, in order.
Assistants(hist) == SelectSeq(hist, LAMBDA e : e.role = "assistant")

\* C12: on every session on which no turn is executing, audioResponses has
\* one entry for each assistant entry of the history, carrying its text.
C12_AudioPerReply ==
    \A s \in 1..Len(objs) :
        (~\E p \in Procs : InTurn(p) /\ h[p].session = s) =>
            LET a == Assistants(objs[s].conversationHistory)
            IN  /\ Len(objs[s].audioResponses) = Len(a)
                /\ \A i \in 1..Len(a) : objs[s].audioResponses[i].text = a[i].content

\* ------------------------------------------------------------------ C13
\* A failed language-model, synthesis or publish call ends the turn, and
\* processTranscription returns to its caller as after a turn that succeeded.
TurnFailureReturns ==
    \A p \in Procs :
        (PtLlm(p, "fail") \/ PtTts(p, "fail") \/ PtUpload(p, FALSE))
            => /\ h'[p].pc = ReturnPc(h[p])
               /\ h'[p].lastRet = "ran"
               /\ resp' = "none"

\* A failed identity provisioning changes neither the result of ensure nor
\* the response to session_started.
ProvisioningFailureIgnored ==
    \A p \in Procs :
        /\ EnsureCreate(p, FALSE) => (h'[p].pc = "en_ret" /\ h'[p].ready)
        /\ SsStart(p, "failed") => resp' = "ok"

\* A failed transcript fetch is answered like an empty transcript.
FetchFailureIgnored ==
    \A p \in Procs :
        TrFetch(p, FALSE, 0, "eof", "user", TRUE) => resp' = "ok"

\* The callers of processTranscription answer with the success
\* acknowledgment whatever the turn did.
CallersAcknowledge ==
    \A p \in Procs :
        /\ (Steps(p) /\ h[p].pc = "cc_ret") => resp' = "ok"
        /\ \A bad \in 0..MaxLines :
              TrLoop(p, bad, "eof", "user", TRUE) => resp' = "ok"

\* C13: a failure of the language model, synthesis, publication, identity
\* provisioning or the transcript fetch leaves the response as it is when
\* the call succeeds: the success acknowledgment.
C13_FailuresKeepResponse ==
    [][/\ TurnFailureReturns
       /\ ProvisioningFailureIgnored
       /\ FetchFailureIgnored
       /\ CallersAcknowledge]_vars

\* The only delivery so far has been acknowledged after a turn whose
\* language-model call failed: the history holds the user entry alone.
C13_Witness ==
    /\ resp = "ok"
    /\ h[1].pc = "done"
    /\ \A p \in Procs \ {1} : h[p].pc = "idle"
    /\ \E s \in 1..Len(objs) :
          /\ Len(objs[s].conversationHistory) = 1
          /\ ~objs[s].isProcessing

\* ------------------------------------------------------------------ C14
\* C14: a closed_caption event without a meeting identifier, or whose ensure
\* call returns false, is answered "ignored"; it creates and removes no
\* session, appends nothing, changes no status and starts no turn.
C14_IgnoredChangesNothing ==
    [][\A p \in Procs :
          /\ ClosedCaption(p, NoId) =>
                (resp' = "ignored" /\ UNCHANGED <<status, sessions, objs>>)
          /\ (\E upsertOk \in BOOLEAN : EnsureCreate(p, upsertOk) /\ ~h'[p].ready) =>
                UNCHANGED <<status, sessions, objs>>
          /\ (Steps(p) /\ h[p].pc = "en_ret" /\ h[p].type = "call.closed_caption"
                       /\ ~h[p].ready) =>
                /\ resp' = "ignored"
                /\ h'[p].pc = "done"
                /\ UNCHANGED <<status, sessions, objs>>]_vars

\* The only delivery so far was answered "ignored" while the agent record
\* is missing and no session exists: it carried no meeting identifier or its
\* ensure call returned false.
C14_Witness ==
    /\ resp = "ignored"
    /\ h[1].pc = "done"
    /\ \A p \in Procs \ {1} : h[p].pc = "idle"
    /\ ~agentExists
    /\ objs = <<>>
    /\ \A m \in MeetingIds : sessions[m] = 0

\* ------------------------------------------------------------------ C15
\* The texts an object holds directly: its text, caption and content fields
\* that are strings with a character other than white space.
TextsAt(o) == {Get(o, k).str : k \in {j \in TextKeys : NonBlankString(Get(o, j))}}

RECURSIVE TextsBelow(_)
\* The texts found anywhere in a payload.
TextsBelow(o) ==
    IF o.kind # "obj" THEN {}
    ELSE TextsAt(o) \cup UNION {TextsBelow(o.fields[i].v) : i \in 1..Len(o.fields)}

\* The caption substructure of a payload and its payload/data substructure.
CaptionOf(o) == Or(Get(o, "closed_caption"), Get(o, "caption"))
NestedOf(o) == Or(Get(CaptionOf(o), "payload"), Get(CaptionOf(o), "data"))

\* C15: no text is found for {}, for an empty caption substructure and for
\* a payload without a text; otherwise the text returned is one found at the
\* first of: the caption substructure, its payload/data substructure, the
\* whole payload; the text returned is never empty or blank.
C15_FirstLocation ==
    captionText # Unread =>
        /\ Trim(captionText) # ""
        /\ IF TextsAt(CaptionOf(anyPayload)) # {}
              THEN captionText \in TextsAt(CaptionOf(anyPayload))
           ELSE IF TextsAt(NestedOf(anyPayload)) # {}
              THEN captionText \in TextsAt(NestedOf(anyPayload))
           ELSE IF TextsBelow(anyPayload) # {}
              THEN captionText \in TextsBelow(anyPayload)
           ELSE captionText = NoText

\* ------------------------------------------------------------------ C16
\* C16: ensure without a session starts a session with the agent's
\* identifier and instructions and an empty history and returns true when
\* the meeting and its agent are found, whether or not the provisioning
\* succeeds; otherwise it returns false and creates no session.
C16_EnsureCreates ==
    [][\A p \in Procs : \A upsertOk \in BOOLEAN :
          EnsureCreate(p, upsertOk) =>
              IF status[h[p].mid] # NoMeeting /\ agentExists
              THEN /\ h'[p].ready
                   /\ h'[p].pc = "en_ret"
                   /\ sessions'[h[p].mid] # 0
                   /\ objs'[sessions'[h[p].mid]] = NewSession(h[p].mid, AgentId, Instructions)
              ELSE /\ ~h'[p].ready
                   /\ h'[p].pc = "en_ret"
                   /\ sessions' = sessions
                   /\ objs' = objs]_vars

\* Delivery 1 found no session and still waits for its lookups; delivery 2,
\* which started after it, has finished ensure with true and the session it
\* created is the only one.
C16_Witness ==
    /\ h[1].pc = "en_lookup"
    /\ h[2].pc = "en_ret" /\ h[2].ready
    /\ h[1].mid = h[2].mid
    /\ sessions[h[2].mid] = 1
    /\ objs = <<NewSession(h[2].mid, AgentId, Instructions)>>

\* ------------------------------------------------------------------ C17
\* The contents of the entries of every history.
UserTexts ==
    UNION {{objs[s].conversationHistory[i].content :
               i \in 1..Len(objs[s].conversationHistory)} : s \in 1..Len(objs)}

\* The text of a call that has just been dropped is in no history.
DroppedAbsent ==
    \A q \in Procs : h[q].lastRet = "busy" => Text(q, h[q].lines) \notin UserTexts

\* A user entry is appended only by the step of the call that submits the
\* text, and only when that call passes the guard: there is no later step
\* that takes up a text.  A new session starts with an empty history.
AppendsOnlyOnEntry ==
    /\ \A s \in 1..Len(objs) :
          Users(objs'[s].conversationHistory) # Users(objs[s].conversationHistory) =>
              \E p \in Procs :
                  /\ Steps(p) /\ ~InTurn(p)
                  /\ h'[p].pc = "pt_llm" /\ h'[p].session = s
                  /\ ~objs[s].isProcessing
                  /\ objs'[s].conversationHistory =
                         Append(objs[s].conversationHistory,
                                [role |-> "user", content |-> Text(p, h'[p].lines)])
    /\ \A s \in (Len(objs) + 1)..Len(objs') : objs'[s].conversationHistory = <<>>

\* A reply is appended only by the turn that holds the session, for the
\* text it entered with.
RepliesOnlyForHolder ==
    \A s \in 1..Len(objs) :
        Assistants(objs'[s].conversationHistory) # Assistants(objs[s].conversationHistory) =>
            \E p \in Procs :
                /\ Steps(p) /\ h[p].pc = "pt_llm" /\ h[p].session = s
                /\ Len(objs[s].conversationHistory) > 0
                /\ objs[s].conversationHistory[Len(objs[s].conversationHistory)] =
                       [role |-> "user", content |-> Text(p, h[p].lines)]

\* C17: a text submitted while the session is in flight is dropped: it is
\* appended neither by the call nor by any later step, and no reply is
\* generated for it.
C17_DroppedNotQueued ==
    [](DroppedAbsent) /\ [][AppendsOnlyOnEntry /\ RepliesOnlyForHolder]_vars

\* The turn that was in flight has returned; the text dropped meanwhile is
\* still in no history.
C17_Witness ==
    \E p, q \in Procs :
        /\ h[q].lastRet = "busy"
        /\ h[p].lastRet = "ran"
        /\ h[p].mid = h[q].mid
        /\ sessions[h[p].mid] # 0
        /\ Len(objs[sessions[h[p].mid]].conversationHistory) = 2
        /\ Text(q, h[q].lines) \notin UserTexts

\* ------------------------------------------------------------------ C18
\* a is a prefix of b.
IsPrefix(a, b) == Len(a) <= Len(b) /\ \A i \in 1..Len(a) : a[i] = b[i]

\* C18: as long as a call identifier has a session, in every step the
\* history and the audioResponses held for it before the step are prefixes
\* of those held after it.
C18_AppendOnly ==
    [][\A m \in MeetingIds :
          (sessions[m] # 0 /\ sessions'[m] # 0) =>
              /\ IsPrefix(objs[sessions[m]].conversationHistory,
                          objs'[sessions'[m]].conversationHistory)
              /\ IsPrefix(objs[sessions[m]].audioResponses,
                          objs'[sessions'[m]].audioResponses)]_vars

\* ------------------------------------------------------------------ C19
\* C19: a session_started event for an eligible meeting whose agent is
\* missing is rejected, the status stays as the handler found it and no
\* session is created.
C19_AgentMissingShortCircuits ==
    [][\A p \in Procs :
          (OnlyHandler(p) /\ h[p].pc = "ss_agent" /\ ~agentExists /\ Steps(p)) =>
              /\ resp' = "404"
              /\ sessions' = sessions
              /\ objs' = objs
              /\ status'[h[p].mid] \notin Finished]_vars

\* ------------------------------------------------------------------ C20
\* No run creates more session objects than the one it starts with and one
\* for each delivery.
ObjIds == 1..(MaxProcs + 1)

\* C20: when every external call returns or fails, the isProcessing flag of
\* every session object is eventually false again, also on an object that
\* session_ended has removed from the map during the turn.
C20_TurnCompletes ==
    \A s \in ObjIds :
        (s <= Len(objs) /\ objs[s].isProcessing)
            ~> (s <= Len(objs) /\ ~objs[s].isProcessing)

\* A turn has just returned and released its flag; the other delivery, a
\* session_ended that was handled to its end during the turn, had removed
\* the session from the map.
C20_Witness ==
    \E p, q \in Procs :
        /\ p # q
        /\ h[p].lastRet = "ran"
        /\ h[q].pc = "done"
        /\ resp = "none"
        /\ sessions[h[p].mid] = 0
        /\ \A s \in 1..Len(objs) : ~objs[s].isProcessing

\* ------------------------------------------------------------------ C21
\* Delivery p takes a step of processTranscription: the call and its early
\* returns, or the resumption of a turn.
TurnCodeStep(p) ==
    Steps(p) /\ (InTurn(p) \/ h'[p].pc \in TurnPcs \/ h'[p].lastRet # "none")

\* No step of processTranscription changes the session map.
TurnKeepsStore ==
    \A p \in Procs : TurnCodeStep(p) => sessions' = sessions

\* A call identifier without a session gets one only from session_started
\* or ensure, and the session it gets is new and empty.
OnlyCreatorsInsert ==
    \A m \in MeetingIds :
        (sessions[m] = 0 /\ sessions'[m] # 0) =>
            /\ \E p \in Procs :
                  \/ \E upsert \in {"ok", "failed"} : SsStart(p, upsert)
                  \/ \E upsertOk \in BOOLEAN : EnsureCreate(p, upsertOk)
            /\ objs'[sessions'[m]] = NewSession(m, AgentId, Instructions)

\* A call identifier without a session has no session to hasSession and no
\* audio responses to getAudioResponses, whatever the objects of its former
\* sessions hold.
AbsentReadsEmpty ==
    \A m \in MeetingIds :
        sessions[m] = 0 => (~hasSession(m) /\ getAudioResponses(m) = <<>>)

\* C21: processTurn never changes which call identifiers have a session; a
\* session removed by session_ended stays absent, and its audio responses
\* read as empty, until session_started or ensure creates a new empty one.
C21_TurnKeepsStore ==
    [](AbsentReadsEmpty) /\ [][TurnKeepsStore /\ OnlyCreatorsInsert]_vars

\* A turn has returned with an audio response on the object of a session
\* that a session_ended, handled to its end during the turn, had removed:
\* the call identifier still has no session.
C21_Witness ==
    \E p, q \in Procs :
        /\ p # q
        /\ h[p].lastRet = "ran"
        /\ h[q].pc = "done"
        /\ resp = "none"
        /\ ~hasSession(h[p].mid)
        /\ \E s \in 1..Len(objs) :
              objs[s].call = h[p].mid /\ objs[s].audioResponses # <<>>

\* ------------------------------------------------------------------ C22
\* C22: in every session object, every assistant entry of the history
\* directly follows a user entry, there are no more assistant entries than
\* user entries, and no more audio responses than assistant entries.
C22_HistoryShape ==
    \A s \in 1..Len(objs) :
        LET hist == objs[s].conversationHistory
        IN  /\ \A i \in 1..Len(hist) :
                  /\ hist[i].role \in {"user", "assistant"}
                  /\ hist[i].role = "assistant" => (i > 1 /\ hist[i - 1].role = "user")
            /\ Len(Assistants(hist)) <= Len(Users(hist))
            /\ Len(objs[s].audioResponses) <= Len(Assistants(hist))

\* A session on which a turn without a reply was followed by a turn with a
\* reply and an audio response: user, user, assistant.
C22_Witness ==
    \E s \in 1..Len(objs) :
        /\ Len(objs[s].conversationHistory) = 3
        /\ objs[s].conversationHistory[3].role = "assistant"
        /\ Len(objs[s].audioResponses) = 1
        /\ ~objs[s].isProcessing

====
